---- MODULE Spec2Model ----
(***************************************************************************)
(* A model of extradoc.py (QBobWatson/poporg): the driver Main.main, the   *)
(* extractor Main.extract_strings and the formatter filter                 *)
(* Main.launch_emacs.                                                      *)
(*                                                                         *)
(* Text is modelled by TLA+ strings, one character per byte.  The program  *)
(* is Python 2 code (file(), str.decode), so the text of a token is a byte *)
(* string.  The character HiByte stands for the byte 0xE9, which is not    *)
(* valid UTF-8 on its own; EAcute stands for U+00E9, the character the     *)
(* ISO-8859-1 decoding of that byte gives.  Every other character is       *)
(* ASCII and decodes to itself.                                            *)
(*                                                                         *)
(* The tokenizer (tokenize.generate_tokens), the catalog library (polib)   *)
(* and the formatter (emacs) are outside the repository: the model draws   *)
(* what they deliver (tokens, a tokenize error, output lines, an exit      *)
(* status) from sets.  Failures of the environment that no input decides   *)
(* (a full disk, a missing emacs binary, a read-only directory) are not    *)
(* modelled.                                                               *)
(***************************************************************************)
EXTENDS Integers, Sequences, FiniteSets, TLC

VARIABLES
    argv,       \* the command line: options and SOURCE arguments
    prefix,     \* Main.prefix
    html,       \* Main.html
    org,        \* Main.org
    pdf,        \* Main.pdf
    pot,        \* Main.pot
    verbose,    \* Main.verbose
    org_file,   \* Main.org_file: "unset", "None", "open" or "closed"
    po,         \* Main.po: the entries of the polib.POFile
    fs,         \* the files PREFIX.org, PREFIX.pot, PREFIX.html, PREFIX.pdf
    fs0,        \* fs when the run started
    pc,         \* where the run is
    step,       \* position in the completion steps of main
    argIdx,     \* number of the SOURCE being processed
    row,        \* the tokenizer's current line in the current source
    infiles,    \* the file objects made for SOURCE arguments, in order
    consumed,   \* the tokens the tokenizer has delivered so far
    procs,      \* the subprocesses launched, in order
    emacsOut,   \* the raw lines read from the subprocesses so far
    stderr,     \* what was written to sys.stderr, one element per write
    exit,       \* how the run ended: "running", "ok", "sysexit", an exception
    log         \* the effects the run had, in order

vars == <<argv, prefix, html, org, pdf, pot, verbose, org_file, po, fs, fs0,
          pc, step, argIdx, row, infiles, consumed, procs, emacsOut, stderr,
          exit, log>>

-----------------------------------------------------------------------------
(* Bounds *)

MaxSources == 2
MaxTokens == 2
MaxXTokens == 1
MaxFilterLines == 2

-----------------------------------------------------------------------------
(* Characters and strings *)

DQ == "\""
SQ == "'"
BS == "\\"
NL == "\n"
HiByte == "$"
EAcute == "@"
DQ3 == DQ \o DQ \o DQ
SQ3 == SQ \o SQ \o SQ

\* encoding = 'UTF-8'
encoding == "UTF-8"

\* None, for a field that holds None or a string
NoneValue == "<None>"

Char(s, i) == SubSeq(s, i, i)

\* str.startswith
StartsWith(s, p) == Len(s) >= Len(p) /\ SubSeq(s, 1, Len(p)) = p

\* str.replace(old, new), old non-empty: leftmost non-overlapping occurrences
RECURSIVE Replace(_, _, _)
Replace(s, old, new) ==
    IF Len(s) < Len(old) THEN s
    ELSE IF SubSeq(s, 1, Len(old)) = old
         THEN new \o Replace(SubSeq(s, Len(old) + 1, Len(s)), old, new)
         ELSE Char(s, 1) \o Replace(SubSeq(s, 2, Len(s)), old, new)

\* text[3:-3]
Slice3(s) == IF Len(s) <= 6 THEN "" ELSE SubSeq(s, 4, Len(s) - 3)

\* the number of line ends in a token's text
RECURSIVE CountNL(_)
CountNL(s) ==
    IF Len(s) = 0 THEN 0
    ELSE (IF Char(s, 1) = NL THEN 1 ELSE 0) + CountNL(SubSeq(s, 2, Len(s)))

\* str(line) for line >= 0
Digits == "0123456789"
RECURSIVE Str(_)
Str(n) == IF n < 10 THEN Char(Digits, n + 1)
          ELSE Str(n \div 10) \o Char(Digits, (n % 10) + 1)

\* whether bytes.decode('UTF-8') succeeds
Utf8Decodable(s) == \A i \in 1..Len(s) : Char(s, i) # HiByte

\* bytes.decode('ISO-8859-1'): never fails, every byte is a character
Latin1Decode(s) == Replace(s, HiByte, EAcute)

-----------------------------------------------------------------------------
(* Main.extract_strings: what it does with one token *)

QualifiesLoose(tok) == tok.code = "STRING" /\ StartsWith(tok.text, DQ)

\* code == tokenize.STRING and text.startswith('"""')
Qualifies(tok) == tok.code = "STRING" /\ StartsWith(tok.text, DQ3)

ExtractTextKeep(text) == Slice3(text)

\* text[3:-3].replace('\\\n', '')
ExtractText(text) == Replace(Slice3(text), BS \o NL, "")

OccurrenceEnd(name, srow, erow) == <<name, Str(erow)>>

\* (name, str(line)), line the first component of the token's start
Occurrence(name, srow, erow) == <<name, Str(srow)>>

\* polib.POEntry(msgid=..., occurrences=[...])
POEntry(msgid, occ) == [msgid |-> msgid, occurrences |-> <<occ>>]

-----------------------------------------------------------------------------
(* Main.launch_emacs: what it does with one line *)

NoisyPrefixesShort ==
    <<"Loading ", "OVERVIEW", "Saving file ", "Wrote ",
      "Exporting to ", "LaTeX export done, ", "Processing LaTeX file ",
      "(No changes need to be saved)", "(Shell command succeeded ",
      "Exporting...", "HTML export done, ", "Publishing file ",
      "Resetting org-publish-cache">>

\* the tuple given to line.startswith
NoisyPrefixes ==
    <<"Loading ", "OVERVIEW", "Saving file ", "Wrote ",
      "Exporting to ", "LaTeX export done, ", "Processing LaTeX file ",
      "(No changes need to be saved)", "(Shell command succeeded ",
      "Exporting...", "HTML export done, ", "Publishing file ",
      "Resetting org-publish-cache", "Skipping unmodified file ">>

IsNoisy(line) ==
    \E k \in 1..Len(NoisyPrefixes) : StartsWith(line, NoisyPrefixes[k])

\* raw.decode(encoding), and raw.decode('ISO-8859-1') on UnicodeDecodeError
DecodeLine(raw) == IF Utf8Decodable(raw) THEN raw ELSE Latin1Decode(raw)

CacheSuffix == ".cache..."

\* The matches of '^Loading .*/([^/]+)\.cache\.\.\.$' at the start of line,
\* as pairs <<i, j>>: the '/' at i, the group line[i+1..j].  '.' matches
\* anything but a line end, '[^/]' anything but '/', and '$' the end of the
\* string or the place before a line end that ends the string.
CacheMatches(line) ==
    IF ~StartsWith(line, "Loading ") THEN {}
    ELSE
    { m \in { i \in 9..Len(line) : Char(line, i) = "/" }
            \X { j \in 1..Len(line) :
                   \/ j + Len(CacheSuffix) = Len(line)
                   \/ /\ j + Len(CacheSuffix) = Len(line) - 1
                      /\ Char(line, Len(line)) = NL } :
        /\ \A k \in 9..(m[1] - 1) : Char(line, k) # NL
        /\ m[2] >= m[1] + 1
        /\ \A k \in (m[1] + 1)..m[2] : Char(line, k) # "/"
        /\ SubSeq(line, m[2] + 1, m[2] + Len(CacheSuffix)) = CacheSuffix }

\* re.match's choice among them: '.*' and '[^/]+' are greedy
CacheMatch(line) ==
    CHOOSE m \in CacheMatches(line) :
        \A o \in CacheMatches(line) :
            \/ o[1] < m[1]
            \/ (o[1] = m[1] /\ o[2] <= m[2])

\* match.group(1)
CacheName(line) == SubSeq(line, CacheMatch(line)[1] + 1, CacheMatch(line)[2])

\* The writes to sys.stderr that one line of the subprocess's output causes
ForwardLine(v, raw) ==
    LET line == DecodeLine(raw) IN
    IF v THEN <<line>>
    ELSE IF CacheMatches(line) # {} THEN <<CacheName(line) \o NL>>
    ELSE IF IsNoisy(line) THEN <<>>
    ELSE <<line>>

\* the loop of launch_emacs over the lines of the subprocess's output
RECURSIVE ForwardAll(_, _)
ForwardAll(v, lines) ==
    IF lines = <<>> THEN <<>>
    ELSE ForwardLine(v, Head(lines)) \o ForwardAll(v, Tail(lines))

-----------------------------------------------------------------------------
(* What the run is given *)

SourceNames == <<"a.py", "b.py">>

\* The SOURCE arguments of a command line with n of them
SourceList(n) == [i \in 1..n |-> SourceNames[((i - 1) % Len(SourceNames)) + 1]]

\* The command lines: -c absent, -c '' or -c doc; each flag given or not
ArgvSet ==
    [c : {NoneValue, "", "doc"}, h : BOOLEAN, o : BOOLEAN, p : BOOLEAN,
     t : BOOLEAN, v : BOOLEAN, sources : {SourceList(n) : n \in 0..MaxSources}]

OldEntry == [msgid |-> "old", occurrences |-> <<<<"old.py", "7">>>>]

NoFiles == [org |-> [exists |-> FALSE, data |-> ""],
            pot |-> [exists |-> FALSE, data |-> <<>>],
            html |-> FALSE, pdf |-> FALSE]

OldFiles == [org |-> [exists |-> TRUE, data |-> "old"],
             pot |-> [exists |-> TRUE, data |-> <<OldEntry>>],
             html |-> FALSE, pdf |-> FALSE]

\* The output files before the run: none, or PREFIX.org and PREFIX.pot
\* left by an earlier run
FsSet == {NoFiles, OldFiles}

\* The tokens the tokenizer delivers in the driver's runs: two documentation
\* strings (the second continued over a line end), one whose bytes are not
\* UTF-8, and a raw string
MainPool ==
    { [code |-> "STRING", text |-> DQ3 \o "a" \o DQ3],
      [code |-> "STRING", text |-> DQ3 \o "b" \o BS \o NL \o "c" \o DQ3],
      [code |-> "STRING", text |-> DQ3 \o HiByte \o DQ3],
      [code |-> "STRING", text |-> "r" \o DQ3 \o "a" \o DQ3] }

\* What one run of the formatter does: its exit status, the lines it
\* prints, whether it wrote its output file, and whether it had ended when
\* the Popen object was dropped
EmacsRuns ==
    { [status |-> 0, lines |-> <<"Loading /e/org.cache..." \o NL,
                                 "Wrote doc" \o NL>>,
       wrote |-> TRUE, reaped |-> TRUE],
      [status |-> 255, lines |-> <<"Symbol's function is void" \o NL>>,
       wrote |-> FALSE, reaped |-> FALSE] }

-----------------------------------------------------------------------------
(* Main.main *)

ValidationErrorNoExists(pfx, h, o, p, orgExists) ==
    IF pfx = NoneValue \/ pfx = "" THEN "Option -c is mandatory."
    ELSE ""

\* The message of the sys.exit that option validation ends with, "" when
\* the options are accepted
ValidationError(pfx, h, o, p, orgExists) ==
    IF pfx = NoneValue \/ pfx = "" THEN "Option -c is mandatory."
    ELSE IF (h \/ p) /\ ~o /\ orgExists
         THEN "File " \o pfx \o ".org exists and -o not specified."
         ELSE ""

\* self.html or self.org or self.pdf
WantsOrgFile(h, o, p) == h \/ o \/ p

OpenForWriteAppend(file) == [exists |-> TRUE, data |-> file.data]

\* open(name, 'w'): the file is created, or truncated
OpenForWrite(file) == [exists |-> TRUE, data |-> ""]

\* (self.html or self.pdf) and not self.org
RemovesOrg(h, o, p) == (h \/ p) /\ ~o

CompletionOrderLaunchFirst == <<"save", "html", "close", "pdf", "remove">>

\* The steps of main after the last input, in the order of the code
CompletionOrder == <<"save", "close", "html", "pdf", "remove">>

LaunchOutcomeChecked(run) == IF run.status = 0 THEN "returns" ELSE "raises"

\* How launch_emacs ends: the exit status is never read
LaunchOutcome(run) == "returns"

\* The line of the first token the model follows in a source: b.py begins
\* with eight lines that hold no string literal
FirstRow(name) == IF name = "b.py" THEN 9 ELSE 1

\* The exit status of the process: sys.exit(message) and an uncaught
\* exception give 1, a return from main gives 0
ExitStatus(e) == IF e = "ok" THEN 0 ELSE 1

NumInputs == IF argv.sources = <<>> THEN 1 ELSE Len(argv.sources)

CurName == IF argv.sources = <<>> THEN "<stdin>" ELSE argv.sources[argIdx]

Init ==
    /\ argv \in ArgvSet
    /\ prefix = NoneValue
    /\ html = FALSE /\ org = FALSE /\ pdf = FALSE
    /\ pot = FALSE /\ verbose = FALSE
    /\ org_file = "unset"
    /\ po = <<>>
    /\ fs \in FsSet
    /\ fs0 = fs
    /\ pc = "start"
    /\ step = 0
    /\ argIdx = 0
    /\ row = 0
    /\ infiles = <<>>
    /\ consumed = <<>>
    /\ procs = <<>>
    /\ emacsOut = <<>>
    /\ stderr = <<>>
    /\ exit = "running"
    /\ log = <<>>

\* Lines 41-61: decode the options, then validate them
DecodeOptions ==
    /\ pc = "start"
    /\ prefix' = argv.c
    /\ html' = argv.h /\ org' = argv.o /\ pdf' = argv.p
    /\ pot' = argv.t /\ verbose' = argv.v
    /\ LET msg == ValidationError(argv.c, argv.h, argv.o, argv.p, fs.org.exists)
       IN IF msg # ""
          THEN /\ stderr' = Append(stderr, msg \o NL)
               /\ exit' = "sysexit"
               /\ pc' = "failed"
          ELSE /\ pc' = "prepare"
               /\ UNCHANGED <<stderr, exit>>
    /\ UNCHANGED <<argv, org_file, po, fs, fs0, step, argIdx, row, infiles,
                   consumed, procs, emacsOut, log>>

\* Lines 63-80: open the outline file, make the catalog
Prepare ==
    /\ pc = "prepare"
    /\ IF WantsOrgFile(html, org, pdf)
       THEN /\ org_file' = "open"
            /\ fs' = [fs EXCEPT !.org = OpenForWrite(@)]
            /\ log' = Append(log, "open")
       ELSE /\ org_file' = "None"
            /\ UNCHANGED <<fs, log>>
    /\ po' = <<>>
    /\ argIdx' = 1
    /\ pc' = "source"
    /\ UNCHANGED <<argv, prefix, html, org, pdf, pot, verbose, fs0, step, row,
                   infiles, consumed, procs, emacsOut, stderr, exit>>

\* Lines 83-87: file(argument), or sys.stdin when there is no SOURCE.
\* file() raises IOError for a SOURCE that cannot be opened.
OpenSource ==
    /\ pc = "source"
    /\ \/ /\ infiles' = IF argv.sources = <<>> THEN infiles
                        ELSE Append(infiles, "open")
          /\ row' = FirstRow(CurName)
          /\ pc' = "tokens"
          /\ UNCHANGED exit
       \/ /\ argv.sources # <<>>
          /\ exit' = "IOError"
          /\ pc' = "aborted"
          /\ UNCHANGED <<infiles, row>>
    /\ UNCHANGED <<argv, prefix, html, org, pdf, pot, verbose, org_file, po,
                   fs, fs0, step, argIdx, consumed, procs, emacsOut, stderr,
                   log>>

\* Lines 102-112: the body of the loop of extract_strings for one token.
\* The outline is written before the catalog entry is made, and
\* text.decode raises UnicodeDecodeError on bytes that are not UTF-8.
HandleToken(tok) ==
    LET erow == row + CountNL(tok.text)
        text == ExtractText(tok.text)
    IN  /\ consumed' = Append(consumed,
                 [src |-> argIdx, code |-> tok.code, text |-> tok.text,
                  srow |-> row, erow |-> erow])
        /\ row' = erow
        /\ IF Qualifies(tok)
           THEN /\ fs' = IF org_file # "None"
                         THEN [fs EXCEPT !.org.data = @ \o text]
                         ELSE fs
                /\ IF pot /\ ~Utf8Decodable(text)
                   THEN /\ exit' = "UnicodeDecodeError"
                        /\ pc' = "aborted"
                        /\ UNCHANGED po
                   ELSE /\ po' = IF pot
                                 THEN Append(po, POEntry(text,
                                          Occurrence(CurName, row, erow)))
                                 ELSE po
                        /\ UNCHANGED <<exit, pc>>
           ELSE UNCHANGED <<fs, po, exit, pc>>
        /\ UNCHANGED <<argv, prefix, html, org, pdf, pot, verbose, org_file,
                       fs0, step, argIdx, infiles, procs, emacsOut, stderr,
                       log>>

\* The tokenizer delivers one more token of the current source
ReadToken ==
    /\ pc = "tokens"
    /\ Len(consumed) < MaxTokens
    /\ \E tok \in MainPool : HandleToken(tok)

\* The tokenizer raises tokenize.TokenError: nothing catches it
TokenizeError ==
    /\ pc = "tokens"
    /\ exit' = "TokenError"
    /\ pc' = "aborted"
    /\ UNCHANGED <<argv, prefix, html, org, pdf, pot, verbose, org_file, po,
                   fs, fs0, step, argIdx, row, infiles, consumed, procs,
                   emacsOut, stderr, log>>

\* The tokenizer is exhausted and extract_strings returns: the file object
\* of line 85 loses its last reference, which closes it
EndOfSource ==
    /\ pc = "tokens"
    /\ infiles' = IF argv.sources = <<>> THEN infiles
                  ELSE [infiles EXCEPT ![Len(infiles)] = "closed"]
    /\ log' = Append(log, "extracted")
    /\ IF argIdx < NumInputs
       THEN /\ argIdx' = argIdx + 1
            /\ pc' = "source"
            /\ UNCHANGED step
       ELSE /\ pc' = "complete"
            /\ step' = 1
            /\ UNCHANGED argIdx
    /\ UNCHANGED <<argv, prefix, html, org, pdf, pot, verbose, org_file, po,
                   fs, fs0, row, consumed, procs, emacsOut, stderr, exit>>

\* The end of a completion step: on to the next, or main returns
Advance ==
    /\ step' = step + 1
    /\ IF step = Len(CompletionOrder)
       THEN pc' = "done" /\ exit' = "ok"
       ELSE UNCHANGED <<pc, exit>>

\* Lines 90-91: self.po.save(self.prefix + '.pot')
SavePot ==
    /\ pc = "complete" /\ CompletionOrder[step] = "save"
    /\ IF pot
       THEN /\ fs' = [fs EXCEPT !.pot = [exists |-> TRUE, data |-> po]]
            /\ log' = Append(log, "save")
       ELSE UNCHANGED <<fs, log>>
    /\ Advance
    /\ UNCHANGED <<argv, prefix, html, org, pdf, pot, verbose, org_file, po,
                   fs0, argIdx, row, infiles, consumed, procs, emacsOut,
                   stderr>>

\* Lines 92-93: self.org_file.close()
CloseOrg ==
    /\ pc = "complete" /\ CompletionOrder[step] = "close"
    /\ IF org_file # "None"
       THEN /\ org_file' = "closed"
            /\ log' = Append(log, "close")
       ELSE UNCHANGED <<org_file, log>>
    /\ Advance
    /\ UNCHANGED <<argv, prefix, html, org, pdf, pot, verbose, po, fs, fs0,
                   argIdx, row, infiles, consumed, procs, emacsOut, stderr>>

\* Lines 114-152: one run of the formatter, its output filtered line by
\* line.  Nothing waits for the subprocess: it is reaped only if it had
\* ended when the Popen object was dropped.
launch_emacs(format) ==
    \E run \in EmacsRuns :
        /\ procs' = Append(procs, [format |-> format, status |-> run.status,
                                   reaped |-> run.reaped])
        /\ emacsOut' = emacsOut \o run.lines
        /\ stderr' = stderr \o ForwardAll(verbose, run.lines)
        /\ fs' = [fs EXCEPT ![format] = @ \/ run.wrote]
        /\ log' = Append(log, format)
        /\ IF LaunchOutcome(run) = "returns"
           THEN Advance
           ELSE /\ exit' = "CalledProcessError"
                /\ pc' = "aborted"
                /\ UNCHANGED step

\* Lines 94-95
LaunchHtml ==
    /\ pc = "complete" /\ CompletionOrder[step] = "html"
    /\ IF html
       THEN launch_emacs("html")
       ELSE Advance /\ UNCHANGED <<procs, emacsOut, stderr, fs, log>>
    /\ UNCHANGED <<argv, prefix, html, org, pdf, pot, verbose, org_file, po,
                   fs0, argIdx, row, infiles, consumed>>

\* Lines 96-97
LaunchPdf ==
    /\ pc = "complete" /\ CompletionOrder[step] = "pdf"
    /\ IF pdf
       THEN launch_emacs("pdf")
       ELSE Advance /\ UNCHANGED <<procs, emacsOut, stderr, fs, log>>
    /\ UNCHANGED <<argv, prefix, html, org, pdf, pot, verbose, org_file, po,
                   fs0, argIdx, row, infiles, consumed>>

\* Lines 98-99: os.remove(self.prefix + '.org')
RemoveOrg ==
    /\ pc = "complete" /\ CompletionOrder[step] = "remove"
    /\ IF RemovesOrg(html, org, pdf)
       THEN /\ fs' = [fs EXCEPT !.org = [exists |-> FALSE, data |-> ""]]
            /\ log' = Append(log, "remove")
       ELSE UNCHANGED <<fs, log>>
    /\ Advance
    /\ UNCHANGED <<argv, prefix, html, org, pdf, pot, verbose, org_file, po,
                   fs0, argIdx, row, infiles, consumed, procs, emacsOut,
                   stderr>>

Next ==
    \/ DecodeOptions
    \/ Prepare
    \/ OpenSource
    \/ ReadToken
    \/ TokenizeError
    \/ EndOfSource
    \/ SavePot
    \/ CloseOrg
    \/ LaunchHtml
    \/ LaunchPdf
    \/ RemoveOrg

Spec == Init /\ [][Next]_vars

-----------------------------------------------------------------------------
(* extract_strings alone, on the tokens a tokenizer can deliver *)

StringPrefixes == {"", "r", "u", "b", "ur", "R"}

\* Bodies a string literal of any quoting can have: plain text, a
\* continuation (backslash, line end), other escapes, a byte that is not
\* UTF-8
AnyBodies ==
    { "", "x", "x" \o BS \o NL \o "y", BS \o NL,
      BS \o NL \o "x" \o BS \o NL, "a" \o BS \o "n" \o "b", BS \o BS,
      BS \o DQ, "x" \o HiByte }

\* Bodies only a triple-quoted literal can have: a line end, an escaped
\* backslash before a line end
TripleBodies == { "x" \o NL \o "y", BS \o BS \o NL \o "y", NL }

StringTexts ==
    { p \o q \o b \o q : p \in StringPrefixes, q \in {DQ3, SQ3, DQ, SQ},
                         b \in AnyBodies }
    \cup { p \o q \o b \o q : p \in StringPrefixes, q \in {DQ3, SQ3},
                              b \in TripleBodies }

OtherTokens ==
    { [code |-> "NAME", text |-> "x"], [code |-> "OP", text |-> "("],
      [code |-> "NUMBER", text |-> "1"], [code |-> "NEWLINE", text |-> NL],
      [code |-> "COMMENT", text |-> "#" \o DQ3 \o "x" \o DQ3],
      [code |-> "ERRORTOKEN", text |-> DQ], [code |-> "ENDMARKER", text |-> ""] }

TokenPool == { [code |-> "STRING", text |-> t] : t \in StringTexts }
             \cup OtherTokens

\* A run in extract_strings on its only SOURCE, a.py, with -o and -t each
\* given or not
InitExtract ==
    /\ argv \in [c : {"doc"}, h : {FALSE}, o : BOOLEAN, p : {FALSE},
                 t : BOOLEAN, v : {FALSE}, sources : {SourceList(1)}]
    /\ prefix = argv.c
    /\ html = FALSE /\ org = argv.o /\ pdf = FALSE
    /\ pot = argv.t /\ verbose = FALSE
    /\ org_file = IF WantsOrgFile(FALSE, argv.o, FALSE) THEN "open" ELSE "None"
    /\ po = <<>>
    /\ fs0 = NoFiles
    /\ fs = IF WantsOrgFile(FALSE, argv.o, FALSE)
            THEN [NoFiles EXCEPT !.org = OpenForWrite(@)] ELSE NoFiles
    /\ pc = "tokens"
    /\ step = 0
    /\ argIdx = 1
    /\ row = 1
    /\ infiles = <<"open">>
    /\ consumed = <<>>
    /\ procs = <<>>
    /\ emacsOut = <<>>
    /\ stderr = <<>>
    /\ exit = "running"
    /\ log = IF WantsOrgFile(FALSE, argv.o, FALSE) THEN <<"open">> ELSE <<>>

ExtractToken ==
    /\ pc = "tokens"
    /\ Len(consumed) < MaxXTokens
    /\ \E tok \in TokenPool : HandleToken(tok)

NextExtract == ExtractToken

SpecExtract == InitExtract /\ [][NextExtract]_vars

-----------------------------------------------------------------------------
(* The loop of launch_emacs alone, on lines a formatter can print *)

\* The line starts the filter is to drop
NoisyLineStarts ==
    <<"Loading ", "OVERVIEW", "Saving file ", "Wrote ",
      "Exporting to ", "LaTeX export done, ", "Processing LaTeX file ",
      "(No changes need to be saved)", "(Shell command succeeded ",
      "Exporting...", "HTML export done, ", "Publishing file ",
      "Resetting org-publish-cache", "Skipping unmodified file ">>

AllButLast(s) == SubSeq(s, 1, Len(s) - 1)

LinePool ==
    { NoisyLineStarts[k] \o "x" \o NL : k \in 1..Len(NoisyLineStarts) }
    \cup { " " \o NoisyLineStarts[k] \o NL : k \in 1..Len(NoisyLineStarts) }
    \cup { AllButLast(NoisyLineStarts[k]) \o NL :
             k \in 1..Len(NoisyLineStarts) }
    \cup { "Loading /d/n.cache..." \o NL, "Loading /d/n.cache...",
           "Loading n.cache..." \o NL, "Loading /d/.cache..." \o NL,
           "Loading /n.cache..." \o NL, "Loading /d/n.cache...x" \o NL,
           "Loading /d/n.cache.." \o NL, " Loading /d/n.cache..." \o NL,
           "Loading /d/e/n.m.cache..." \o NL, "loading /d/n.cache..." \o NL,
           "Loading /d/n.cache....cache..." \o NL,
           "Loading /d" \o HiByte \o "/n.cache..." \o NL,
           "Symbol's function is void: x" \o NL, "x" \o HiByte \o NL,
           "Wrote", NL, "" }

\* A run with -h in launch_emacs('html'), reading the subprocess's output
InitFilter ==
    /\ argv \in [c : {"doc"}, h : {TRUE}, o : {FALSE}, p : {FALSE},
                 t : {FALSE}, v : BOOLEAN, sources : {SourceList(0)}]
    /\ prefix = argv.c
    /\ html = TRUE /\ org = FALSE /\ pdf = FALSE
    /\ pot = FALSE /\ verbose = argv.v
    /\ org_file = "closed"
    /\ po = <<>>
    /\ fs0 = NoFiles
    /\ fs = [NoFiles EXCEPT !.org = OpenForWrite(@)]
    /\ pc = "reading"
    /\ step = 3
    /\ argIdx = 1
    /\ row = 1
    /\ infiles = <<>>
    /\ consumed = <<>>
    /\ procs = <<>>
    /\ emacsOut = <<>>
    /\ stderr = <<>>
    /\ exit = "running"
    /\ log = <<"open", "extracted", "close">>

\* Lines 116-152: one turn of the loop over the subprocess's output
ReadLine ==
    /\ pc = "reading"
    /\ Len(emacsOut) < MaxFilterLines
    /\ \E raw \in LinePool :
          /\ emacsOut' = Append(emacsOut, raw)
          /\ stderr' = stderr \o ForwardLine(verbose, raw)
    /\ UNCHANGED <<argv, prefix, html, org, pdf, pot, verbose, org_file, po,
                   fs, fs0, pc, step, argIdx, row, infiles, consumed, procs,
                   exit, log>>

NextFilter == ReadLine

SpecFilter == InitFilter /\ [][NextFilter]_vars

-----------------------------------------------------------------------------
(* The claims' vocabulary, stated from the command line and the tokens *)

Last(q) == q[Len(q)]

\* The literal text begins with three double-quote characters
BeginsTripleDouble(t) ==
    /\ t.code = "STRING"
    /\ Len(t.text) >= 3
    /\ \A i \in 1..3 : Char(t.text, i) = DQ

\* A position of s that belongs to no backslash-newline pair
Kept(s, i) ==
    /\ ~(Char(s, i) = BS /\ i < Len(s) /\ Char(s, i + 1) = NL)
    /\ ~(Char(s, i) = NL /\ i > 1 /\ Char(s, i - 1) = BS)

RECURSIVE KeptFrom(_, _)
KeptFrom(s, i) ==
    IF i > Len(s) THEN ""
    ELSE (IF Kept(s, i) THEN Char(s, i) ELSE "") \o KeptFrom(s, i + 1)

\* The text of the unit of a literal: its first three and last three
\* characters removed, then every backslash-newline pair deleted
UnitText(t) == KeptFrom(SubSeq(t.text, 4, Len(t.text) - 3), 1)

\* The qualifying literals among the tokens read, in the order read
Units == SelectSeq(consumed, BeginsTripleDouble)

RECURSIVE ConcatUnits(_)
ConcatUnits(us) ==
    IF us = <<>> THEN "" ELSE UnitText(Head(us)) \o ConcatUnits(Tail(us))

\* The name of the input a token came from
InputName(t) ==
    IF argv.sources = <<>> THEN "<stdin>" ELSE argv.sources[t.src]

DigitValue(c) == CHOOSE d \in 0..9 : Char(Digits, d + 1) = c

\* The number a decimal text denotes; -1 for a text that is not the decimal
\* text of a number (empty, a character that is no digit, a leading zero)
RECURSIVE DecimalValue(_)
DecimalValue(t) ==
    IF Len(t) = 0 THEN -1
    ELSE IF \E i \in 1..Len(t) : \A d \in 1..10 : Char(t, i) # Char(Digits, d)
         THEN -1
    ELSE IF Len(t) = 1 THEN DigitValue(t)
    ELSE IF Char(t, 1) = "0" THEN -1
    ELSE 10 * DecimalValue(SubSeq(t, 1, Len(t) - 1))
         + DigitValue(Char(t, Len(t)))

\* Option validation fails: -c absent or empty, or -h or -p without -o
\* while PREFIX.org exists
OptionsInvalid ==
    \/ argv.c = NoneValue
    \/ argv.c = ""
    \/ (argv.h \/ argv.p) /\ ~argv.o /\ fs0.org.exists

Ended == pc \in {"done", "aborted", "failed"}

\* PREFIX.org exists and the run opened it
OrgIsOutput == fs.org.exists /\ org_file \in {"open", "closed"}

Logged(e) == \E i \in DOMAIN log : log[i] = e

Rank(e) ==
    CASE e = "open" -> 0
      [] e = "extracted" -> 1
      [] e = "save" -> 2
      [] e = "close" -> 3
      [] e = "html" -> 4
      [] e = "pdf" -> 5
      [] e = "remove" -> 6

Failed(f) == \E k \in DOMAIN procs : procs[k].format = f /\ procs[k].status # 0

Launched(f) == \E k \in DOMAIN procs : procs[k].format = f

-----------------------------------------------------------------------------
(* The claims *)

\* C1: when option validation fails (-c absent or empty, or -h/-p without
\* -o while PREFIX.org exists) the run exits with a non-zero status, with
\* every file as it was, no file opened, no input read and no formatter
\* launched.
C1_InvalidOptionsExitBeforeIO ==
    (OptionsInvalid /\ pc # "start") =>
        /\ pc = "failed"
        /\ ExitStatus(exit) # 0
        /\ fs = fs0
        /\ org_file = "unset"
        /\ infiles = <<>>
        /\ consumed = <<>>
        /\ procs = <<>>
        /\ log = <<>>

C1_Witness ==
    /\ pc = "failed"
    /\ argv.c = "doc" /\ argv.p /\ ~argv.o /\ fs0.org.exists
    /\ fs = fs0

\* C2 as stated: every run that passes option validation and whose inputs
\* all tokenize ends with PREFIX.org an output of the run exactly when -o
\* was given.
C2_Original ==
    (pc \in {"done", "aborted"} /\ exit \notin {"TokenError", "IOError"}) =>
        (OrgIsOutput <=> argv.o)

\* What the code does give: a run that returns from main ends with
\* PREFIX.org an output of the run exactly when -o was given; without -o the
\* file the run made is removed after the last formatter run; with none of
\* -o, -h, -p the run never opens, creates or truncates PREFIX.org.
OrgKeptIffRequestedWhenDone ==
    /\ pc = "done" => (OrgIsOutput <=> argv.o)
    /\ (pc = "done" /\ (argv.h \/ argv.p) /\ ~argv.o) =>
          /\ Last(log) = "remove"
          /\ ~fs.org.exists
    /\ (pc = "done" /\ argv.o) => (fs.org.exists /\ ~Logged("remove"))
    /\ (~OptionsInvalid /\ ~(argv.o \/ argv.h \/ argv.p)) =>
          /\ org_file \in {"unset", "None"}
          /\ fs.org = fs0.org
          /\ ~Logged("open")

OrgRemovedWhenDone ==
    /\ pc = "done"
    /\ argv.p /\ ~argv.h /\ ~argv.o
    /\ Len(procs) = 1
    /\ Units # <<>>
    /\ ~fs.org.exists

\* C3: once the outline file is closed, PREFIX.org holds the texts of the
\* qualifying literals, in the order of the inputs and of the source within
\* an input, with nothing between them and nothing of what the file held
\* before the run.
C3_OutlineIsConcatenation ==
    (org_file = "closed" /\ fs.org.exists) => fs.org.data = ConcatUnits(Units)

C3_Witness ==
    /\ org_file = "closed"
    /\ fs0.org.exists /\ fs0.org.data # ""
    /\ Len(consumed) = 2
    /\ consumed[1].src = 1 /\ consumed[2].src = 2
    /\ fs.org.data = "bc" \o "a"

\* C4: a token yields a unit exactly when it is a string literal whose text
\* begins with three double-quote characters; the unit's text is the
\* literal without its first three and last three characters and without
\* any backslash-newline pair, every other escape kept as written.
C4_UnitIffTripleDoubleQuoted ==
    LET texts == [i \in 1..Len(Units) |-> UnitText(Units[i])]
        msgids == [i \in 1..Len(po) |-> po[i].msgid]
    IN  /\ org_file = "open" => fs.org.data = ConcatUnits(Units)
        /\ (pot /\ exit = "running") => msgids = texts
        /\ (pot /\ exit # "running") =>
              /\ Units # <<>>
              /\ msgids = SubSeq(texts, 1, Len(texts) - 1)
        /\ (/\ Len(consumed) = 1
            /\ \/ consumed[1].code # "STRING"
               \/ Len(consumed[1].text) < 6
               \/ \E i \in 1..3 : Char(consumed[1].text, i) # DQ)
           => (po = <<>> /\ fs.org.data = "")

C4_Witness ==
    /\ consumed = <<[src |-> 1, code |-> "STRING",
                     text |-> DQ3 \o "a" \o BS \o "n" \o "b" \o DQ3,
                     srow |-> 1, erow |-> 1]>>
    /\ pot /\ org_file = "open"
    /\ fs.org.data = "a" \o BS \o "n" \o "b"
    /\ Len(po) = 1

\* C5: in verbose mode every line read from the formatter is written to the
\* error stream as it is; otherwise a line 'Loading <path>/<name>.cache...'
\* is replaced by <name> on a line of its own, a line that begins with one
\* of the noisy starts is dropped, and every other line is written as it
\* is; the lines are written in the order read.
C5_LinesFiltered ==
    LET Body(l) == IF Len(l) > 0 /\ Char(l, Len(l)) = NL
                   THEN AllButLast(l) ELSE l
        \* the places of a '/' that splits the line into path and name
        Splits(l) ==
            { i \in 9..Len(Body(l)) :
                /\ Char(l, i) = "/"
                /\ \A k \in (i + 1)..Len(Body(l)) : Char(l, k) # "/"
                /\ Len(Body(l)) - Len(CacheSuffix) > i
                /\ SubSeq(l, Len(Body(l)) - Len(CacheSuffix) + 1, Len(Body(l)))
                      = CacheSuffix }
        IsCache(l) == SubSeq(l, 1, 8) = "Loading " /\ Splits(l) # {}
        Name(l) == LET i == CHOOSE i \in Splits(l) : TRUE
                   IN SubSeq(l, i + 1, Len(Body(l)) - Len(CacheSuffix))
        Noisy(l) == \E k \in 1..Len(NoisyLineStarts) :
                        /\ Len(l) >= Len(NoisyLineStarts[k])
                        /\ \A c \in 1..Len(NoisyLineStarts[k]) :
                              Char(l, c) = Char(NoisyLineStarts[k], c)
        Expected(l) == IF argv.v THEN <<l>>
                       ELSE IF Len(l) >= 8 /\ IsCache(l)
                            THEN <<Name(l) \o NL>>
                       ELSE IF Noisy(l) THEN <<>>
                       ELSE <<l>>
        Written[n \in 0..Len(emacsOut)] ==
            IF n = 0 THEN <<>>
            ELSE Written[n - 1] \o Expected(DecodeLine(emacsOut[n]))
    IN  stderr = Written[Len(emacsOut)]

C5_Witness ==
    /\ ~argv.v
    /\ emacsOut = <<"Loading /d/e/n.m.cache..." \o NL,
                    "Symbol's function is void: x" \o NL>>
    /\ stderr = <<"n.m" \o NL, "Symbol's function is void: x" \o NL>>

\* C6: with -t, the catalog saved to PREFIX.pot holds one entry per unit
\* in the order the units were produced; an entry's message text is the
\* unit's text and its one occurrence is the name of the unit's input
\* ('<stdin>' when no SOURCE is given) with the line the literal's token
\* starts on, in decimal; units of equal text stay separate entries.
C6_CatalogEntries ==
    Logged("save") =>
        LET us == Units IN
        /\ fs.pot.exists
        /\ Len(fs.pot.data) = Len(us)
        /\ \A i \in DOMAIN us :
              LET e == fs.pot.data[i] IN
              /\ e.msgid = UnitText(us[i])
              /\ Len(e.occurrences) = 1
              /\ e.occurrences[1][1] = InputName(us[i])
              /\ DecimalValue(e.occurrences[1][2]) = us[i].srow

C6_Witness ==
    /\ Logged("save")
    /\ Len(fs.pot.data) = 2
    /\ fs.pot.data[1].msgid = fs.pot.data[2].msgid
    /\ fs.pot.data[1].occurrences = <<<<"a.py", "1">>>>
    /\ fs.pot.data[2].occurrences = <<<<"b.py", "9">>>>

\* C7: a formatter run that fails (a non-zero exit status, error lines in
\* its output) changes nothing in what the driver does next: the PDF run
\* still happens when -p is given, PREFIX.org is still removed when -o is
\* absent, and the run ends reporting success.
C7_FormatterFailureIgnored ==
    (Failed("html") \/ Failed("pdf")) =>
        /\ pc \in {"complete", "done"}
        /\ exit \in {"running", "ok"}
        /\ (Failed("html") /\ argv.p /\ (pc = "done" \/ step > 4))
              => Launched("pdf")
        /\ pc = "done" =>
              /\ ExitStatus(exit) = 0
              /\ ~argv.o => ~fs.org.exists
              /\ argv.o => fs.org.exists

C7_Witness ==
    /\ pc = "done"
    /\ Failed("html")
    /\ Launched("pdf") /\ ~Failed("pdf")
    /\ ~argv.o /\ ~fs.org.exists
    /\ exit = "ok"

\* C8: when the run has ended, on whatever path, the outline file is
\* closed, every file opened for a SOURCE is closed and every formatter
\* subprocess has been waited on.
C8_AllReleased ==
    Ended =>
        /\ org_file # "open"
        /\ \A i \in DOMAIN infiles : infiles[i] = "closed"
        /\ \A k \in DOMAIN procs : procs[k].reaped

\* C9 as stated: the triple-single-quoted literal of x, a continuation and
\* y yields one unit whose text is xy.
C9_Original ==
    (/\ Len(consumed) = 1
     /\ consumed[1].code = "STRING"
     /\ consumed[1].text = SQ3 \o "x" \o BS \o NL \o "y" \o SQ3
     /\ pot)
    => (Len(po) = 1 /\ po[1].msgid = "xy")

\* C9, amended: the triple-double-quoted literal of x, a continuation and y
\* yields one unit whose text is xy.
C9_ContinuationRemoved ==
    (/\ Len(consumed) = 1
     /\ consumed[1].code = "STRING"
     /\ consumed[1].text = DQ3 \o "x" \o BS \o NL \o "y" \o DQ3)
    => /\ pot => (Len(po) = 1 /\ po[1].msgid = "xy")
       /\ org_file = "open" => fs.org.data = "xy"

C9_Witness ==
    /\ Len(consumed) = 1
    /\ consumed[1].text = DQ3 \o "x" \o BS \o NL \o "y" \o DQ3
    /\ pot /\ org_file = "open"
    /\ po = <<[msgid |-> "xy", occurrences |-> <<<<"a.py", "1">>>>]>>

\* C10: the run's effects come in this order: the inputs are extracted, all
\* of them; the catalog is saved, once and only with -t; the outline file
\* is closed; the formatter runs, at most once per format, HTML before
\* PDF; the outline is removed.  No formatter runs while the outline file
\* is open or before the last input is extracted, and a run that a tokenize
\* error ends saves no catalog and launches no formatter.
C10_StepOrder ==
    /\ \A i \in 1..(Len(log) - 1) :
          /\ Rank(log[i]) <= Rank(log[i + 1])
          /\ Rank(log[i]) = Rank(log[i + 1]) => log[i] = "extracted"
    /\ (\E i \in DOMAIN log : Rank(log[i]) >= 2) =>
          Cardinality({ i \in DOMAIN log : log[i] = "extracted" })
             = (IF argv.sources = <<>> THEN 1 ELSE Len(argv.sources))
    /\ Logged("save") => argv.t
    /\ procs # <<>> =>
          /\ org_file = "closed"
          /\ argv.t => Logged("save")
    /\ [k \in DOMAIN procs |-> procs[k].format]
          = SelectSeq(log, LAMBDA e : e \in {"html", "pdf"})
    /\ exit = "TokenError" =>
          /\ ~Logged("save")
          /\ fs.pot = fs0.pot
          /\ procs = <<>>
    /\ pc = "done" =>
          /\ Logged("save") <=> argv.t
          /\ Logged("close") <=> (argv.o \/ argv.h \/ argv.p)
          /\ Logged("html") <=> argv.h
          /\ Logged("pdf") <=> argv.p
          /\ Logged("remove") <=> ((argv.h \/ argv.p) /\ ~argv.o)

C10_Witness ==
    /\ pc = "done"
    /\ log = <<"open", "extracted", "extracted", "save", "close", "html",
               "pdf", "remove">>
    /\ Len(procs) = 2

====
